---- MODULE Spec2Model ----
(***************************************************************************)
(* Failed-pod automatic restart subsystem of the workflow controller:      *)
(* the classifier (analyzePodForRestart and its helpers), the restart      *)
(* accounting kept in workflow annotations, and the coordinator pass that  *)
(* the reconciler runs for a failed pod.                                   *)
(*                                                                         *)
(* Go strings are sequences of one-character strings, so that substring    *)
(* search, concatenation and decimal formatting/parsing are computed.      *)
(* Enumerations that the code only compares for equality (pod phase,       *)
(* container state kind, condition status) are TLA+ strings.               *)
(***************************************************************************)
EXTENDS Integers, Sequences, FiniteSets, TLC

VARIABLES
    pod,        \* classifier input: the pod snapshot
    tmpl,       \* classifier input: the template descriptor, or NoTemplate
    info,       \* classifier output of the three implementations
    cpc,        \* position of the classifier run: "idle", "input" or "classified"
    wf,         \* the workflow object: its annotations map (possibly nil)
    nodes,      \* node status per node id
    pods,       \* the pods created so far: owning node and latest snapshot
    now,        \* the clock, in seconds
    config,     \* the FailedPodRestart configuration record
    metric,     \* workflow_failed_pod_restarts_total per reason label
    events,     \* the workflow events emitted
    outcome,    \* the last coordinator pass: its inputs and its Outcome
    restarts,   \* per node, the pods whose pass returned Restarted, in order
    ops,        \* the number of direct accountant operations and lost writes so far
    call,       \* the last direct accountant call: arguments, workflow before, result
    stored,     \* the workflow and node status as last written to storage
    evictionReason, \* the last result of getEvictionReason
    settings,   \* the values last read from the configuration through its getters
    gc          \* the run of deleteArtifacts: its goroutines, channels and effects

classifyVars == <<pod, tmpl, info, cpc>>
coordVars == <<wf, nodes, pods, now, config, metric, events, outcome, restarts, ops>>

auxVars == <<call, stored, evictionReason, settings, gc>>

vars == <<pod, tmpl, info, cpc, wf, nodes, pods, now, config, metric, events,
          outcome, restarts, ops, call, stored, evictionReason, settings, gc>>

(***************************************************************************)
(* String constants.                                                       *)
(***************************************************************************)
sEmpty == <<>>
sEvicted == <<"E", "v", "i", "c", "t", "e", "d">>
sPreempted == <<"P", "r", "e", "e", "m", "p", "t", "e", "d">>
sNodeShutdown == <<"N", "o", "d", "e", "S", "h", "u", "t", "d", "o", "w", "n">>
sNodeAffinity == <<"N", "o", "d", "e", "A", "f", "f", "i", "n", "i", "t", "y">>
sUnexpectedAdmissionError == <<"U", "n", "e", "x", "p", "e", "c", "t", "e", "d", "A", "d", "m", "i", "s", "s", "i", "o", "n", "E", "r", "r", "o", "r">>
sOOMKilled == <<"O", "O", "M", "K", "i", "l", "l", "e", "d">>
sError == <<"E", "r", "r", "o", "r">>
sEvictedLower == <<"e", "v", "i", "c", "t", "e", "d">>
sDisruptionTarget == <<"D", "i", "s", "r", "u", "p", "t", "i", "o", "n", "T", "a", "r", "g", "e", "t">>
sReady == <<"R", "e", "a", "d", "y">>
sStep == <<"s", "t", "e", "p">>
sDiskPressure == <<"D", "i", "s", "k", "P", "r", "e", "s", "s", "u", "r", "e">>
sMemoryPressure == <<"M", "e", "m", "o", "r", "y", "P", "r", "e", "s", "s", "u", "r", "e">>
sDelay == <<"d", "e", "l", "a", "y">>

\* common.MainContainerName and common.InitContainerName
MainContainerName == <<"m", "a", "i", "n">>
InitContainerName == <<"i", "n", "i", "t">>

\* the message patterns of the broader isRestartableReason
patNodeCondition == <<"T", "h", "e", " ", "n", "o", "d", "e", " ", "h", "a", "d", " ", "c", "o", "n", "d", "i", "t", "i", "o", "n", ":">>
patPreempted == <<"P", "r", "e", "e", "m", "p", "t", "e", "d">>
patPreemptedLower == <<"p", "r", "e", "e", "m", "p", "t", "e", "d">>
patNodeShuttingDown == <<"n", "o", "d", "e", " ", "i", "s", " ", "s", "h", "u", "t", "t", "i", "n", "g", " ", "d", "o", "w", "n">>

\* terminal messages used by the unit tests
msgDiskPressure == <<"T", "h", "e", " ", "n", "o", "d", "e", " ", "h", "a", "d", " ", "c", "o", "n", "d", "i", "t", "i", "o", "n", ":", " ", "[", "D", "i", "s", "k", "P", "r", "e", "s", "s", "u", "r", "e", "]">>
msgPreempted == <<"P", "o", "d", " ", "w", "a", "s", " ", "p", "r", "e", "e", "m", "p", "t", "e", "d", " ", "b", "y", " ", "h", "i", "g", "h", "e", "r", " ", "p", "r", "i", "o", "r", "i", "t", "y", " ", "p", "o", "d">>
msgShutdown == <<"n", "o", "d", "e", " ", "i", "s", " ", "s", "h", "u", "t", "t", "i", "n", "g", " ", "d", "o", "w", "n">>
msgMemoryPressure == <<"T", "h", "e", " ", "n", "o", "d", "e", " ", "h", "a", "d", " ", "c", "o", "n", "d", "i", "t", "i", "o", "n", ":", " ", "[", "M", "e", "m", "o", "r", "y", "P", "r", "e", "s", "s", "u", "r", "e", "]">>
msgContainerKilled == <<"C", "o", "n", "t", "a", "i", "n", "e", "r", " ", "k", "i", "l", "l", "e", "d">>
msgSomeError == <<"s", "o", "m", "e", " ", "e", "r", "r", "o", "r">>
msgNoBrackets == <<"N", "o", "d", "e", " ", "o", "u", "t", " ", "o", "f", " ", "r", "e", "s", "o", "u", "r", "c", "e", "s">>

(***************************************************************************)
(* strings.Contains(s, substr)                                             *)
(***************************************************************************)
Contains(s, substr) ==
    \E i \in 0..(Len(s) - Len(substr)) :
        \A j \in 1..Len(substr) : s[i + j] = substr[j]

(***************************************************************************)
(* Bounds of the classifier inputs.                                        *)
(***************************************************************************)
MaxContainers == 2
MaxInitContainers == 1

(***************************************************************************)
(* The pod snapshot.                                                       *)
(***************************************************************************)
PodPhases == {"Pending", "Running", "Succeeded", "Failed", "Unknown"}
PodFailed == "Failed"

\* ContainerState: which of the pointers Waiting, Running, Terminated is set
\* ("None": none of them), and Terminated.StartedAt (0 is the zero time).
StateWaiting == [kind |-> "Waiting", startedAt |-> 0]
StateRunning == [kind |-> "Running", startedAt |-> 1]
StateNone == [kind |-> "None", startedAt |-> 0]
StateTerminated(t) == [kind |-> "Terminated", startedAt |-> t]

StartedAtValues == {0, 1}
CurrentStates == {StateWaiting, StateRunning} \cup {StateTerminated(t) : t \in StartedAtValues}
LastStates == {StateNone, StateRunning, StateTerminated(1)}

ContainerNames == {MainContainerName, sStep}
ContainerStatuses == [name : ContainerNames, state : CurrentStates, last : LastStates]

InitStatuses == [name : {InitContainerName, sDelay},
                 state : {StateWaiting, StateRunning, StateTerminated(0)},
                 last : {StateNone}]

SeqsUpTo(S, n) == UNION {[1..k -> S] : k \in 0..n}

ContainerStatusLists == SeqsUpTo(ContainerStatuses, MaxContainers)
InitStatusLists == SeqsUpTo(InitStatuses, MaxInitContainers)

Reasons == {sEmpty, sEvicted, sPreempted, sNodeShutdown, sNodeAffinity,
            sUnexpectedAdmissionError, sOOMKilled, sError, sEvictedLower}
Messages == {sEmpty, msgDiskPressure, msgPreempted, msgShutdown, msgSomeError}

ConditionTrue == "True"
ConditionFalse == "False"
ConditionLists == {<<>>,
                   <<[type |-> sDisruptionTarget, status |-> ConditionTrue]>>,
                   <<[type |-> sDisruptionTarget, status |-> ConditionFalse]>>,
                   <<[type |-> sReady, status |-> ConditionTrue]>>}

\* the template descriptor: the names IsMainContainerName accepts
NoTemplate == [present |-> FALSE, mainNames |-> {}]
Template(names) == [present |-> TRUE, mainNames |-> names]
Templates == {NoTemplate, Template({MainContainerName}), Template({MainContainerName, sStep})}

IsMainContainerName(t, name) == name \in t.mainNames

(***************************************************************************)
(* workflow/controller/pod_restart.go: the exact-match classifier.         *)
(***************************************************************************)
\* isMainContainer that accepts every container
isMainContainer_Any(t, status) == TRUE

isMainContainer(t, status) ==
    IF t.present THEN IsMainContainerName(t, status.name)
    ELSE status.name = MainContainerName

\* the body of the loop for one status: TRUE when it makes the function
\* return false
mainContainerRan(t, status) ==
    /\ isMainContainer(t, status)
    /\ \/ status.state.kind = "Running"
       \/ status.last.kind = "Running"
       \/ status.state.kind = "Terminated" /\ status.state.startedAt # 0

mainContainerNeverStarted(p, t) ==
    IF Len(p.containerStatuses) = 0 THEN TRUE
    ELSE \A i \in 1..Len(p.containerStatuses) :
            ~mainContainerRan(t, p.containerStatuses[i])

\* isRestartableReason that accepts no reason
isRestartableReason_None(reason) == FALSE

isRestartableReason(reason) ==
    reason \in {sEvicted, sNodeShutdown, sNodeAffinity, sUnexpectedAdmissionError}

\* analyzePodForRestart without the phase gate of line 29
analyzePodForRestart_NoPhaseGate(p, t) ==
    LET info1 == [shouldRestart |-> FALSE, reason |-> p.reason,
                  neverStarted |-> mainContainerNeverStarted(p, t)]
    IN  IF ~info1.neverStarted THEN info1
        ELSE [info1 EXCEPT !.shouldRestart = isRestartableReason(p.reason)]

\* analyzePodForRestart without the early return of lines 34-36
analyzePodForRestart_NoStartedGate(p, t) ==
    LET info0 == [shouldRestart |-> FALSE, reason |-> p.reason, neverStarted |-> FALSE]
    IN  IF p.phase # PodFailed THEN info0
        ELSE [info0 EXCEPT !.neverStarted = mainContainerNeverStarted(p, t),
                           !.shouldRestart = isRestartableReason(p.reason)]

analyzePodForRestart(p, t) ==
    LET info0 == [shouldRestart |-> FALSE, reason |-> p.reason, neverStarted |-> FALSE]
    IN  IF p.phase # PodFailed THEN info0
        ELSE LET info1 == [info0 EXCEPT !.neverStarted = mainContainerNeverStarted(p, t)]
             IN  IF ~info1.neverStarted THEN info1
                 ELSE [info1 EXCEPT !.shouldRestart = isRestartableReason(p.reason)]

(***************************************************************************)
(* The broader classifier (unnamed/part_003, lines 535-636): the same      *)
(* never-started test, and a reason test that also reads the terminal      *)
(* message and the pod conditions.                                         *)
(***************************************************************************)
restartableReasons ==
    {sEvicted, sPreempted, sNodeShutdown, sNodeAffinity, sUnexpectedAdmissionError}

\* isRestartableReason of unnamed/part_003 without the message and condition tests
isRestartableReasonBroad_ReasonOnly(reason, message, conditions) ==
    reason \in restartableReasons

isRestartableReasonBroad(reason, message, conditions) ==
    \/ reason \in restartableReasons
    \/ reason = sEvicted
    \/ Contains(message, patNodeCondition)
    \/ Contains(message, patPreempted)
    \/ Contains(message, patPreemptedLower)
    \/ Contains(message, patNodeShuttingDown)
    \/ \E i \in 1..Len(conditions) :
          /\ conditions[i].type = sDisruptionTarget
          /\ conditions[i].status = ConditionTrue

analyzePodForRestartBroad(p, t) ==
    LET info0 == [shouldRestart |-> FALSE, reason |-> p.reason, message |-> p.message,
                  neverStarted |-> FALSE]
    IN  IF p.phase # PodFailed THEN info0
        ELSE LET info1 == [info0 EXCEPT !.neverStarted = mainContainerNeverStarted(p, t)]
             IN  IF ~info1.neverStarted THEN info1
                 ELSE [info1 EXCEPT !.shouldRestart =
                          isRestartableReasonBroad(p.reason, p.message, p.conditions)]

(***************************************************************************)
(* The exported classifier (unnamed/part_004): the broader reason test,    *)
(* and a never-started test that first reads the init-container statuses.  *)
(***************************************************************************)
\* the first loop returns true at an init container named "init" that is
\* Waiting, was never Running and is not Terminated
initContainerStillWaiting(status) ==
    /\ status.name = InitContainerName
    /\ status.state.kind # "Running"
    /\ status.last.kind # "Running"
    /\ status.state.kind # "Terminated"
    /\ status.state.kind = "Waiting"

mainContainerNeverStartedInit(p, t) ==
    IF Len(p.initContainerStatuses) + Len(p.containerStatuses) = 0 THEN TRUE
    ELSE IF \E i \in 1..Len(p.initContainerStatuses) :
                initContainerStillWaiting(p.initContainerStatuses[i])
         THEN TRUE
         ELSE \A i \in 1..Len(p.containerStatuses) :
                 ~mainContainerRan(t, p.containerStatuses[i])

AnalyzePodForRestart(p, t) ==
    LET info0 == [shouldRestart |-> FALSE, reason |-> p.reason, message |-> p.message,
                  neverStarted |-> FALSE]
    IN  IF p.phase # PodFailed THEN info0
        ELSE LET info1 == [info0 EXCEPT !.neverStarted = mainContainerNeverStartedInit(p, t)]
             IN  IF ~info1.neverStarted THEN info1
                 ELSE [info1 EXCEPT !.shouldRestart =
                          isRestartableReasonBroad(p.reason, p.message, p.conditions)]

(***************************************************************************)
(* getEvictionReason (pod_restart.go lines 85-99; the copies in            *)
(* unnamed/part_003 and unnamed/part_004 are the same).                    *)
(***************************************************************************)
\* strings.Index(s, substr): the 0-based index of the first occurrence, or -1
Index(s, substr) ==
    LET hits == {i \in 0..(Len(s) - Len(substr)) :
                    \A j \in 1..Len(substr) : s[i + j] = substr[j]}
    IN  IF hits = {} THEN -1 ELSE CHOOSE i \in hits : \A k \in hits : i <= k

\* the Go slice s[from:to], 0-based and half-open
Slice(s, from, to) == SubSeq(s, from + 1, to)

\* getEvictionReason without the message parsing
getEvictionReason_ReasonOnly(p) == IF p.reason # sEvicted THEN sEmpty ELSE p.reason

getEvictionReason(p) ==
    IF p.reason # sEvicted THEN sEmpty
    ELSE LET msg == p.message
             idx == Index(msg, <<"[">>)
         IN  IF idx # -1
             THEN LET endIdx == Index(Slice(msg, idx, Len(msg)), <<"]">>)
                  IN  IF endIdx # -1 THEN Slice(msg, idx + 1, idx + endIdx)
                      ELSE p.reason
             ELSE p.reason

(***************************************************************************)
(* Restart accounting in the workflow annotations (unnamed/part_003 lines  *)
(* 657-691; unnamed/part_004 lines 206-240 are the exported copies).       *)
(***************************************************************************)
MaxInt32 == 2147483647
MinInt32 == -MaxInt32 - 1

DigitChars == <<"0", "1", "2", "3", "4", "5", "6", "7", "8", "9">>
IsDigit(c) == \E d \in 1..10 : DigitChars[d] = c
DigitValue(c) == (CHOOSE d \in 1..10 : DigitChars[d] = c) - 1

\* the decimal digits of -n, for n <= 0 (the magnitude of MinInt32 is no int32)
RECURSIVE NegDigits(_)
NegDigits(n) ==
    LET d == (10 - (n % 10)) % 10
    IN  IF n > -10 THEN <<DigitChars[d + 1]>>
        ELSE NegDigits((n + d) \div 10) \o <<DigitChars[d + 1]>>

\* strconv.FormatInt(int64(count), 10) of an int32 count
FormatInt(n) == IF n < 0 THEN <<"-">> \o NegDigits(n) ELSE NegDigits(-n)

\* the digits of s read as a magnitude, accumulated as its negation; "range"
\* when the magnitude exceeds 2^31
RECURSIVE ParseDigits(_, _)
ParseDigits(s, acc) ==
    IF s = <<>> THEN [err |-> "", neg |-> acc]
    ELSE IF ~IsDigit(Head(s)) THEN [err |-> "syntax", neg |-> 0]
    ELSE LET d == DigitValue(Head(s))
             limit == MinInt32 \div 10
         IN  IF acc < limit + 1 \/ (acc = limit + 1 /\ d > 8)
             THEN [err |-> "range", neg |-> 0]
             ELSE ParseDigits(Tail(s), acc * 10 - d)

\* strconv.ParseInt(s, 10, 32): an optional sign, then one or more decimal
\* digits; a value outside [-2^31, 2^31 - 1] is a range error, returned with
\* the nearest int32
ParseInt32(s) ==
    LET signed == s # <<>> /\ Head(s) \in {"+", "-"}
        negative == signed /\ Head(s) = "-"
        digits == IF signed THEN Tail(s) ELSE s
    IN  IF digits = <<>> THEN [err |-> "syntax", value |-> 0]
        ELSE LET r == ParseDigits(digits, 0)
             IN  IF r.err = "syntax" THEN [err |-> r.err, value |-> 0]
                 ELSE IF r.err = "range"
                 THEN [err |-> r.err, value |-> IF negative THEN MinInt32 ELSE MaxInt32]
                 ELSE IF negative THEN [err |-> "", value |-> r.neg]
                 ELSE IF r.neg = MinInt32 THEN [err |-> "range", value |-> 0]
                 ELSE [err |-> "", value |-> -r.neg]

\* int32 addition of 1, wrapping as Go's does
Inc32(c) == IF c = MaxInt32 THEN MinInt32 ELSE c + 1

\* common.AnnotationKeyFailedPodRestartCountPrefix
AnnotationKeyFailedPodRestartCountPrefix == <<"w", "o", "r", "k", "f", "l", "o", "w", "s", ".", "a", "r", "g", "o", "p", "r", "o", "j", ".", "i", "o", "/", "f", "a", "i", "l", "e", "d", "-", "p", "o", "d", "-", "r", "e", "s", "t", "a", "r", "t", "-", "c", "o", "u", "n", "t", "/">>

AnnotationKey(nodeID) == AnnotationKeyFailedPodRestartCountPrefix \o nodeID

\* a workflow whose Annotations map is nil
EmptyWorkflow == [hasAnnotations |-> FALSE, annotations |-> <<>>]

\* getFailedPodRestartCount without the lookup: the counter is always read as 0
getFailedPodRestartCount_Zero(w, nodeID) == 0

\* getFailedPodRestartCount without the test err == nil of line 664
getFailedPodRestartCount_IgnoreErr(w, nodeID) ==
    IF ~w.hasAnnotations THEN 0
    ELSE LET key == AnnotationKey(nodeID)
         IN  IF key \in DOMAIN w.annotations
             THEN ParseInt32(w.annotations[key]).value
             ELSE 0

getFailedPodRestartCount(w, nodeID) ==
    IF ~w.hasAnnotations THEN 0
    ELSE LET key == AnnotationKey(nodeID)
         IN  IF key \in DOMAIN w.annotations
             THEN LET r == ParseInt32(w.annotations[key])
                  IN  IF r.err = "" THEN r.value ELSE 0
             ELSE 0

\* the map after m[key] = value
MapPut(m, key, value) ==
    [k \in DOMAIN m \cup {key} |-> IF k = key THEN value ELSE m[k]]

\* setFailedPodRestartCount without lines 674-676: a nil map is not created
setFailedPodRestartCount_NoCreate(w, nodeID, count) ==
    LET key == AnnotationKey(nodeID)
        newValue == FormatInt(count)
        old == IF key \in DOMAIN w.annotations THEN w.annotations[key] ELSE sEmpty
    IN  IF ~w.hasAnnotations THEN [wf |-> w, changed |-> FALSE]
        ELSE IF old # newValue
        THEN [wf |-> [w EXCEPT !.annotations = MapPut(w.annotations, key, newValue)],
              changed |-> TRUE]
        ELSE [wf |-> w, changed |-> FALSE]

\* setFailedPodRestartCount that writes only where no value is stored yet
setFailedPodRestartCount_KeepOld(w, nodeID, count) ==
    LET annotations == IF ~w.hasAnnotations THEN <<>> ELSE w.annotations
        key == AnnotationKey(nodeID)
    IN  IF key \notin DOMAIN annotations
        THEN [wf |-> [hasAnnotations |-> TRUE,
                      annotations |-> MapPut(annotations, key, FormatInt(count))],
              changed |-> TRUE]
        ELSE [wf |-> [hasAnnotations |-> TRUE, annotations |-> annotations],
              changed |-> FALSE]

\* setFailedPodRestartCount that reports a change on every call
setFailedPodRestartCount_AlwaysChanged(w, nodeID, count) ==
    LET annotations == IF ~w.hasAnnotations THEN <<>> ELSE w.annotations
    IN  [wf |-> [hasAnnotations |-> TRUE,
                 annotations |-> MapPut(annotations, AnnotationKey(nodeID),
                                        FormatInt(count))],
         changed |-> TRUE]

\* returns the workflow after the call and the result `changed`
\* setFailedPodRestartCount that stores a fresh map holding the node's key only
setFailedPodRestartCount_FreshMap(w, nodeID, count) ==
    LET key == AnnotationKey(nodeID)
        newValue == FormatInt(count)
        old == IF w.hasAnnotations /\ key \in DOMAIN w.annotations
               THEN w.annotations[key] ELSE sEmpty
    IN  [wf |-> [hasAnnotations |-> TRUE, annotations |-> (key :> newValue)],
         changed |-> old # newValue]

setFailedPodRestartCount(w, nodeID, count) ==
    LET annotations == IF ~w.hasAnnotations THEN <<>> ELSE w.annotations
        key == AnnotationKey(nodeID)
        newValue == FormatInt(count)
        old == IF key \in DOMAIN annotations THEN annotations[key] ELSE sEmpty
    IN  IF old # newValue
        THEN [wf |-> [hasAnnotations |-> TRUE,
                      annotations |-> MapPut(annotations, key, newValue)],
              changed |-> TRUE]
        ELSE [wf |-> [hasAnnotations |-> TRUE, annotations |-> annotations],
              changed |-> FALSE]

\* incrementFailedPodRestartCount that returns the new count and stores nothing
incrementFailedPodRestartCount_NoStore(w, nodeID) ==
    [wf |-> w, count |-> Inc32(getFailedPodRestartCount(w, nodeID))]

\* returns the workflow after the call and the new count
incrementFailedPodRestartCount(w, nodeID) ==
    LET count == Inc32(getFailedPodRestartCount(w, nodeID))
    IN  [wf |-> setFailedPodRestartCount(w, nodeID, count).wf, count |-> count]

(***************************************************************************)
(* The FailedPodRestart configuration and its getters (declared outside    *)
(* the files at hand; their unit tests fix the defaults).                  *)
(***************************************************************************)
DefaultMaxRestarts == 3
DefaultBackoffSeconds == 30

Absent == [present |-> FALSE, value |-> 0]
Some(v) == [present |-> TRUE, value |-> v]

NilConfig == [present |-> FALSE, enabled |-> FALSE, maxRestarts |-> Absent,
              backoffDuration |-> Absent]
Config(enabled, maxRestarts, backoff) ==
    [present |-> TRUE, enabled |-> enabled, maxRestarts |-> maxRestarts,
     backoffDuration |-> backoff]

IsEnabled(c) == c.present /\ c.enabled
\* GetMaxRestarts taking an explicit 0 for an unset value
GetMaxRestarts_ZeroIsUnset(c) ==
    IF c.present /\ c.maxRestarts.present /\ c.maxRestarts.value # 0
    THEN c.maxRestarts.value ELSE DefaultMaxRestarts

GetMaxRestarts(c) ==
    IF c.present /\ c.maxRestarts.present THEN c.maxRestarts.value ELSE DefaultMaxRestarts
GetBackoffDuration(c) ==
    IF c.present /\ c.backoffDuration.present THEN c.backoffDuration.value
    ELSE DefaultBackoffSeconds

(***************************************************************************)
(* The policy gate: decide(classification, currentCount, config, now,      *)
(* lastAttemptAt), rules 1 to 5 in order.                                  *)
(***************************************************************************)
sRestartDisabled == <<"r", "e", "s", "t", "a", "r", "t", " ", "d", "i", "s", "a", "b", "l", "e", "d">>
sMaxRestartsExceeded == <<"m", "a", "x", " ", "r", "e", "s", "t", "a", "r", "t", "s", " ", "e", "x", "c", "e", "e", "d", "e", "d">>

CmdRestart == [kind |-> "Restart", reason |-> sEmpty, until |-> 0]
CmdFail(r) == [kind |-> "Fail", reason |-> r, until |-> 0]
CmdDefer(t) == [kind |-> "Defer", reason |-> sEmpty, until |-> t]

\* decide without rule 1
decide_NoDisabledRule(c, currentCount, cfg, t, lastAttemptAt) ==
    IF ~c.shouldRestart THEN CmdFail(c.reason)
    ELSE IF currentCount >= GetMaxRestarts(cfg) THEN CmdFail(sMaxRestartsExceeded)
    ELSE IF lastAttemptAt.present /\ t - lastAttemptAt.value < GetBackoffDuration(cfg)
         THEN CmdDefer(lastAttemptAt.value + GetBackoffDuration(cfg))
    ELSE CmdRestart

\* decide without rule 4
decide_NoBackoff(c, currentCount, cfg, t, lastAttemptAt) ==
    IF ~IsEnabled(cfg) THEN CmdFail(sRestartDisabled)
    ELSE IF ~c.shouldRestart THEN CmdFail(c.reason)
    ELSE IF currentCount >= GetMaxRestarts(cfg) THEN CmdFail(sMaxRestartsExceeded)
    ELSE CmdRestart

\* decide with rule 3 ahead of rule 2
decide_BudgetFirst(c, currentCount, cfg, t, lastAttemptAt) ==
    IF ~IsEnabled(cfg) THEN CmdFail(sRestartDisabled)
    ELSE IF currentCount >= GetMaxRestarts(cfg) THEN CmdFail(sMaxRestartsExceeded)
    ELSE IF ~c.shouldRestart THEN CmdFail(c.reason)
    ELSE IF lastAttemptAt.present /\ t - lastAttemptAt.value < GetBackoffDuration(cfg)
         THEN CmdDefer(lastAttemptAt.value + GetBackoffDuration(cfg))
    ELSE CmdRestart

\* decide whose rule 2 fails without the classifier's reason
decide_ReasonDropped(c, currentCount, cfg, t, lastAttemptAt) ==
    IF ~IsEnabled(cfg) THEN CmdFail(sRestartDisabled)
    ELSE IF ~c.shouldRestart THEN CmdFail(sEmpty)
    ELSE IF currentCount >= GetMaxRestarts(cfg) THEN CmdFail(sMaxRestartsExceeded)
    ELSE IF lastAttemptAt.present /\ t - lastAttemptAt.value < GetBackoffDuration(cfg)
         THEN CmdDefer(lastAttemptAt.value + GetBackoffDuration(cfg))
    ELSE CmdRestart

decide(c, currentCount, cfg, t, lastAttemptAt) ==
    IF ~IsEnabled(cfg) THEN CmdFail(sRestartDisabled)
    ELSE IF ~c.shouldRestart THEN CmdFail(c.reason)
    ELSE IF currentCount >= GetMaxRestarts(cfg) THEN CmdFail(sMaxRestartsExceeded)
    ELSE IF lastAttemptAt.present /\ t - lastAttemptAt.value < GetBackoffDuration(cfg)
         THEN CmdDefer(lastAttemptAt.value + GetBackoffDuration(cfg))
    ELSE CmdRestart

(***************************************************************************)
(* The coordinator and the part of the reconciler around it.               *)
(***************************************************************************)
MaxPods == 4
MaxTime == 40
MaxOps == 2
TickSteps == {10, 30}

\* the nodes of the workflow, and a node id of which only an annotation exists
NodeIDs == {<<"n", "1">>}
OtherNodeID == <<"n", "1", "0">>

\* the template the resolver returns for every node
NodeTemplate == Template({MainContainerName})

MkPod(phase, reason, message, statuses) ==
    [phase |-> phase, reason |-> reason, message |-> message, conditions |-> <<>>,
     initContainerStatuses |-> <<>>, containerStatuses |-> statuses]
MainStatus(state) == [name |-> MainContainerName, state |-> state, last |-> StateNone]

\* a pod that was scheduled and has not reached a terminal phase
PodRunning == MkPod("Running", sEmpty, sEmpty, <<MainStatus(StateWaiting)>>)
\* the terminal snapshots of the end-to-end scenarios
PodEvictedBeforeInit == MkPod(PodFailed, sEvicted, msgDiskPressure, <<MainStatus(StateWaiting)>>)
PodUserFailure == MkPod(PodFailed, sEmpty, sEmpty, <<MainStatus(StateTerminated(1))>>)
PodOOMAfterStart == MkPod(PodFailed, sOOMKilled, sEmpty, <<MainStatus(StateTerminated(1))>>)
PodPreemptedBeforeStart == MkPod(PodFailed, sPreempted, sEmpty, <<MainStatus(StateWaiting)>>)
PodNodeShutdown == MkPod(PodFailed, sNodeShutdown, msgShutdown, <<>>)
PodSucceeded == MkPod("Succeeded", sEmpty, sEmpty, <<MainStatus(StateTerminated(1))>>)

TerminalSnapshots == {PodEvictedBeforeInit, PodUserFailure, PodOOMAfterStart,
                      PodPreemptedBeforeStart, PodNodeShutdown, PodSucceeded}

Configs == {NilConfig,
            Config(FALSE, Some(2), Some(10)),
            Config(TRUE, Absent, Some(10)),
            Config(TRUE, Some(0), Absent),
            Config(TRUE, Some(1), Absent),
            Config(TRUE, Some(2), Some(10)),
            Config(TRUE, Absent, Absent)}

NoPod == 0
NewNode == [phase |-> "Running", message |-> sEmpty, failedPodRestarts |-> 0,
            podRef |-> NoPod, lastAttemptAt |-> Absent, requeueAt |-> Absent]

NoOutcome == [kind |-> "None", node |-> sEmpty, pod |-> NoPod, reason |-> sEmpty,
              until |-> 0, readCount |-> 0, shouldRestart |-> FALSE]
\* the result of a pass, with the counter it read and the classification it made
Outcome(kind, n, p, reason, until, k, shouldRestart) ==
    [kind |-> kind, node |-> n, pod |-> p, reason |-> reason, until |-> until,
     readCount |-> k, shouldRestart |-> shouldRestart]

\* the reason label of the metric and the cause named by the event
metricReason(p) == IF p.reason = sEvicted THEN getEvictionReason(p) ELSE p.reason

CounterInc(m, label) ==
    [l \in DOMAIN m \cup {label} |->
        IF l = label THEN (IF l \in DOMAIN m THEN m[l] + 1 ELSE 1) ELSE m[l]]

\* a workflow that carries the restart count of another node only
OtherNodeWorkflow ==
    [hasAnnotations |-> TRUE, annotations |-> (AnnotationKey(OtherNodeID) :> <<"5">>)]

\* a workflow whose annotation for node n has the given value
AnnotatedWorkflow(n, value) ==
    [hasAnnotations |-> TRUE, annotations |-> (AnnotationKey(n) :> value)]

CoordInit ==
    /\ wf \in {EmptyWorkflow, OtherNodeWorkflow}
    /\ nodes = [n \in NodeIDs |-> NewNode]
    /\ pods = <<>>
    /\ now = 0
    /\ config \in Configs
    /\ metric = <<>>
    /\ events = <<>>
    /\ outcome = NoOutcome
    /\ restarts = [n \in NodeIDs |-> <<>>]
    /\ ops = 0

\* the reconciler schedules a pod for a node that has none
SchedulePod(n) ==
    /\ nodes[n].phase = "Running"
    /\ nodes[n].podRef = NoPod
    /\ Len(pods) < MaxPods
    /\ pods' = Append(pods, [node |-> n, snap |-> PodRunning])
    /\ nodes' = [nodes EXCEPT ![n].podRef = Len(pods) + 1]
    /\ UNCHANGED <<wf, now, config, metric, events, outcome, restarts, ops>>

\* the pod source reports the terminal state of the node's pod
PodTerminates(n, snap) ==
    /\ nodes[n].podRef # NoPod
    /\ pods[nodes[n].podRef].snap = PodRunning
    /\ pods' = [pods EXCEPT ![nodes[n].podRef].snap = snap]
    /\ UNCHANGED <<wf, nodes, now, config, metric, events, outcome, restarts, ops>>

\* the reconciler completes a node whose pod succeeded
NodeSucceeds(n) ==
    /\ nodes[n].phase = "Running"
    /\ nodes[n].podRef # NoPod
    /\ pods[nodes[n].podRef].snap.phase = "Succeeded"
    /\ nodes' = [nodes EXCEPT ![n].phase = "Succeeded"]
    /\ UNCHANGED <<wf, pods, now, config, metric, events, outcome, restarts, ops>>

Tick(d) ==
    /\ now + d <= MaxTime
    /\ now' = now + d
    /\ UNCHANGED <<wf, nodes, pods, config, metric, events, outcome, restarts, ops>>

\* a restart that leaves the failed pod bound to the node
DetachPod_Keep(node) == node

\* step 4(d): the node no longer refers to the failed pod
DetachPod(node) == [node EXCEPT !.podRef = NoPod]

\* coordinate(pod, template, workflow, nodeID, now, config) for pod p of node n
Coordinate(n, p) ==
    /\ p \in 1..Len(pods)
    /\ pods[p].node = n
    /\ nodes[n].phase = "Running"
    /\ LET snap == pods[p].snap
           c == analyzePodForRestart(snap, NodeTemplate)
           k == getFailedPodRestartCount(wf, n)
           cmd == decide(c, k, config, now, nodes[n].lastAttemptAt)
           inc == incrementFailedPodRestartCount(wf, n)
       IN  IF snap.phase # PodFailed \/ nodes[n].podRef # p
           THEN /\ outcome' = Outcome("NotApplicable", n, p, sEmpty, 0, k, FALSE)
                /\ UNCHANGED <<wf, nodes, metric, events, restarts>>
           ELSE IF cmd.kind = "Restart"
           THEN /\ wf' = inc.wf
                /\ nodes' = [nodes EXCEPT
                               ![n] = DetachPod([@ EXCEPT !.failedPodRestarts = inc.count,
                                                          !.lastAttemptAt = Some(now),
                                                          !.requeueAt = Absent])]
                /\ metric' = CounterInc(metric, metricReason(snap))
                /\ events' = Append(events, [reason |-> "PodRestarted", node |-> n,
                                             cause |-> metricReason(snap)])
                /\ restarts' = [restarts EXCEPT ![n] = Append(@, p)]
                /\ outcome' = Outcome("Restarted", n, p, sEmpty, 0, k, c.shouldRestart)
           ELSE IF cmd.kind = "Fail"
           THEN /\ nodes' = [nodes EXCEPT ![n].phase = "Failed",
                                          ![n].message = cmd.reason]
                /\ outcome' = Outcome("Failed", n, p, cmd.reason, 0, k, c.shouldRestart)
                /\ UNCHANGED <<wf, metric, events, restarts>>
           ELSE /\ nodes' = [nodes EXCEPT ![n].requeueAt = Some(cmd.until)]
                /\ outcome' = Outcome("Pending", n, p, sEmpty, cmd.until, k, c.shouldRestart)
                /\ UNCHANGED <<wf, metric, events, restarts>>
    /\ UNCHANGED <<pods, now, config, ops>>

\* no direct accountant call was made, and nothing was written to storage
NoCall == [op |-> "none", node |-> sEmpty, count |-> 0, before |-> EmptyWorkflow,
           result |-> 0, changed |-> FALSE]
NoStore == [wf |-> EmptyWorkflow, nodes |-> [n \in NodeIDs |-> NewNode],
            restarts |-> [n \in NodeIDs |-> <<>>]]
\* deleteArtifacts was not called
NoGC == [pc |-> "idle"]
NoSettings == [enabled |-> FALSE, maxRestarts |-> 0, backoffDuration |-> 0]
AuxIdle ==
    /\ call = NoCall
    /\ stored = NoStore
    /\ evictionReason = sEmpty
    /\ settings = NoSettings
    /\ gc = NoGC

NoInfo == [shouldRestart |-> FALSE, reason |-> sEmpty, neverStarted |-> FALSE]
NoInfoMessage == [shouldRestart |-> FALSE, reason |-> sEmpty, message |-> sEmpty,
                  neverStarted |-> FALSE]

\* the classifier run is idle while the coordinator runs, and conversely
ClassifyIdle ==
    /\ pod = PodRunning
    /\ tmpl = NoTemplate
    /\ info = [exact |-> NoInfo, broad |-> NoInfoMessage, exported |-> NoInfoMessage]
    /\ cpc = "idle"

CoordIdle ==
    /\ wf = EmptyWorkflow
    /\ nodes = [n \in NodeIDs |-> NewNode]
    /\ pods = <<>>
    /\ now = 0
    /\ config = NilConfig
    /\ metric = <<>>
    /\ events = <<>>
    /\ outcome = NoOutcome
    /\ restarts = [n \in NodeIDs |-> <<>>]
    /\ ops = 0

Init == ClassifyIdle /\ CoordInit /\ AuxIdle
Next ==
    \/ \E n \in NodeIDs : SchedulePod(n)
          /\ UNCHANGED classifyVars /\ UNCHANGED auxVars
    \/ \E n \in NodeIDs : \E snap \in TerminalSnapshots :
          PodTerminates(n, snap)
          /\ UNCHANGED classifyVars /\ UNCHANGED auxVars
    \/ \E n \in NodeIDs : NodeSucceeds(n)
          /\ UNCHANGED classifyVars /\ UNCHANGED auxVars
    \/ \E n \in NodeIDs : \E p \in 1..MaxPods : Coordinate(n, p)
          /\ UNCHANGED classifyVars /\ UNCHANGED auxVars
    \/ \E d \in TickSteps : Tick(d)
          /\ UNCHANGED classifyVars /\ UNCHANGED auxVars
Spec == Init /\ [][Next]_vars

(***************************************************************************)
(* The coordinator next to direct increment operations, on a workflow      *)
(* that may already carry a restart-count annotation.                      *)
(***************************************************************************)
AnnotationInputs == {<<"0">>, <<"2">>, <<"a", "b", "c">>, <<"-", "5">>,
                     FormatInt(MaxInt32 - 1), FormatInt(MaxInt32)}

CounterConfigs == {NilConfig, Config(TRUE, Some(2), Some(10))}

CounterInit ==
    /\ ClassifyIdle
    /\ AuxIdle
    /\ wf \in {EmptyWorkflow, OtherNodeWorkflow}
              \cup {AnnotatedWorkflow(n, v) : n \in NodeIDs, v \in AnnotationInputs}
    /\ nodes = [n \in NodeIDs |-> NewNode]
    /\ pods = <<>>
    /\ now = 0
    /\ config \in CounterConfigs
    /\ metric = <<>>
    /\ events = <<>>
    /\ outcome = NoOutcome
    /\ restarts = [n \in NodeIDs |-> <<>>]
    /\ ops = 0

\* a caller runs incrementFailedPodRestartCount(wf, n)
Increment(n) ==
    /\ ops < MaxOps
    /\ wf' = incrementFailedPodRestartCount(wf, n).wf
    /\ call' = [op |-> "increment", node |-> n, count |-> 0, before |-> wf,
                result |-> incrementFailedPodRestartCount(wf, n).count,
                changed |-> FALSE]
    /\ ops' = ops + 1
    /\ UNCHANGED <<nodes, pods, now, config, metric, events, outcome, restarts>>

CounterNext ==
    \/ \E n \in NodeIDs : SchedulePod(n)
          /\ UNCHANGED classifyVars /\ UNCHANGED auxVars
    \/ \E n \in NodeIDs : \E snap \in TerminalSnapshots :
          PodTerminates(n, snap)
          /\ UNCHANGED classifyVars /\ UNCHANGED auxVars
    \/ \E n \in NodeIDs : NodeSucceeds(n)
          /\ UNCHANGED classifyVars /\ UNCHANGED auxVars
    \/ \E n \in NodeIDs : \E p \in 1..MaxPods : Coordinate(n, p)
          /\ UNCHANGED classifyVars /\ UNCHANGED auxVars
    \/ \E d \in TickSteps : Tick(d)
          /\ UNCHANGED classifyVars /\ UNCHANGED auxVars
    \/ \E n \in NodeIDs : Increment(n)
          /\ UNCHANGED classifyVars /\ UNCHANGED <<stored, evictionReason, settings, gc>>
SpecCounter == CounterInit /\ [][CounterNext]_vars

(***************************************************************************)
(* The accountant alone: callers run get, set and increment on a workflow  *)
(* in any prior state of its annotations.                                  *)
(***************************************************************************)
\* annotation values that are no decimal int32: not decimal, empty, or out
\* of the 32-bit range on either side
MalformedValues == {<<"a", "b", "c">>, <<>>,
                    <<"2", "1", "4", "7", "4", "8", "3", "6", "4", "8">>,
                    <<"-", "2", "1", "4", "7", "4", "8", "3", "6", "4", "9">>,
                    <<"9", "9", "9", "9", "9", "9", "9", "9", "9", "9", "9">>}

AccountantNodeIDs == NodeIDs \cup {OtherNodeID}
SetCounts == {0, 2, 3, MaxInt32}

AccountantInit ==
    /\ ClassifyIdle
    /\ AuxIdle
    /\ wf \in {EmptyWorkflow, OtherNodeWorkflow}
              \cup {AnnotatedWorkflow(n, v) :
                       n \in NodeIDs, v \in AnnotationInputs \cup MalformedValues}
    /\ nodes = [n \in NodeIDs |-> NewNode]
    /\ pods = <<>>
    /\ now = 0
    /\ config = NilConfig
    /\ metric = <<>>
    /\ events = <<>>
    /\ outcome = NoOutcome
    /\ restarts = [n \in NodeIDs |-> <<>>]
    /\ ops = 0

\* a caller runs getFailedPodRestartCount(wf, n): the workflow is only read
Get(n) ==
    /\ ops < MaxOps
    /\ call' = [op |-> "get", node |-> n, count |-> 0, before |-> wf,
                result |-> getFailedPodRestartCount(wf, n), changed |-> FALSE]
    /\ ops' = ops + 1
    /\ UNCHANGED <<wf, nodes, pods, now, config, metric, events, outcome, restarts>>

\* a caller runs setFailedPodRestartCount(wf, n, k)
Set(n, k) ==
    /\ ops < MaxOps
    /\ wf' = setFailedPodRestartCount(wf, n, k).wf
    /\ call' = [op |-> "set", node |-> n, count |-> k, before |-> wf,
                result |-> 0, changed |-> setFailedPodRestartCount(wf, n, k).changed]
    /\ ops' = ops + 1
    /\ UNCHANGED <<nodes, pods, now, config, metric, events, outcome, restarts>>

AccountantNext ==
    \/ \E n \in AccountantNodeIDs : Get(n)
          /\ UNCHANGED classifyVars /\ UNCHANGED <<stored, evictionReason, settings, gc>>
    \/ \E n \in AccountantNodeIDs : \E k \in SetCounts : Set(n, k)
          /\ UNCHANGED classifyVars /\ UNCHANGED <<stored, evictionReason, settings, gc>>
    \/ \E n \in AccountantNodeIDs : Increment(n)
          /\ UNCHANGED classifyVars /\ UNCHANGED <<stored, evictionReason, settings, gc>>
SpecAccountant == AccountantInit /\ [][AccountantNext]_vars

(***************************************************************************)
(* The reconciler with its storage: a tick works on the workflow in        *)
(* memory and then writes it; the write may be lost (cancellation after    *)
(* the mutation, or a conflict), and the next tick starts again from what  *)
(* is stored.  A pass may also be cancelled before it mutates anything.    *)
(***************************************************************************)
\* the workflow in memory differs from the stored one
Dirty == wf # stored.wf \/ nodes # stored.nodes

\* the configurations, terminal pods and clock step of this run
PersistConfigs == {Config(TRUE, Some(1), Absent), Config(TRUE, Some(2), Some(10))}
PersistSnapshots == {PodEvictedBeforeInit, PodOOMAfterStart, PodSucceeded}
PersistTick == 30

PersistInit ==
    /\ ClassifyIdle
    /\ CoordInit
    /\ wf = EmptyWorkflow
    /\ config \in PersistConfigs
    /\ call = NoCall
    /\ evictionReason = sEmpty
    /\ settings = NoSettings
    /\ gc = NoGC
    /\ stored = [wf |-> wf, nodes |-> nodes, restarts |-> restarts]

\* the reconciler writes the workflow, annotations and node status together
Persist ==
    /\ Dirty
    /\ stored' = [wf |-> wf, nodes |-> nodes, restarts |-> restarts]
    /\ UNCHANGED <<wf, nodes, pods, now, config, metric, events, outcome, restarts, ops>>

\* the write does not reach storage: the next tick reads the stored workflow;
\* the metric and the events of the lost pass were emitted all the same
LoseWrite ==
    /\ Dirty
    /\ ops < MaxOps
    /\ wf' = stored.wf
    /\ nodes' = stored.nodes
    /\ ops' = ops + 1
    /\ UNCHANGED <<pods, now, config, metric, events, outcome, restarts, stored>>

\* a pass for a failed pod is cancelled before step 4(a)
CancelledPass(n, p) ==
    /\ p \in 1..Len(pods)
    /\ pods[p].node = n
    /\ nodes[n].phase = "Running"
    /\ nodes[n].podRef = p
    /\ pods[p].snap.phase = PodFailed
    /\ outcome' = Outcome("NotApplicable", n, p, sEmpty, 0,
                          getFailedPodRestartCount(wf, n), FALSE)
    /\ UNCHANGED <<wf, nodes, pods, now, config, metric, events, restarts, ops, stored>>

PersistNext ==
    \/ \E n \in NodeIDs : ~Dirty /\ SchedulePod(n)
          /\ UNCHANGED classifyVars /\ UNCHANGED auxVars
    \/ \E n \in NodeIDs : \E snap \in PersistSnapshots : PodTerminates(n, snap)
          /\ UNCHANGED classifyVars /\ UNCHANGED auxVars
    \/ \E n \in NodeIDs : ~Dirty /\ NodeSucceeds(n)
          /\ UNCHANGED classifyVars /\ UNCHANGED auxVars
    \/ \E n \in NodeIDs : \E p \in 1..MaxPods : ~Dirty /\ Coordinate(n, p)
          /\ UNCHANGED classifyVars /\ UNCHANGED auxVars
    \/ \E n \in NodeIDs : \E p \in 1..MaxPods : ~Dirty /\ CancelledPass(n, p)
          /\ UNCHANGED classifyVars /\ UNCHANGED <<call, evictionReason, settings, gc>>
    \/ Tick(PersistTick)
          /\ UNCHANGED classifyVars /\ UNCHANGED auxVars
    \/ Persist /\ UNCHANGED classifyVars /\ UNCHANGED <<call, evictionReason, settings, gc>>
    \/ LoseWrite /\ UNCHANGED classifyVars /\ UNCHANGED <<call, evictionReason, settings, gc>>
SpecPersist == PersistInit /\ [][PersistNext]_vars

(***************************************************************************)
(* The end-to-end run of TestEvictedPodRestarts: the first pod of the node *)
(* is evicted while its init container runs, every later pod succeeds.     *)
(* The workqueue keeps invoking the reconciler and the kubelet keeps       *)
(* reporting, so each of their steps is taken if it stays possible.        *)
(***************************************************************************)
\* the patched pod status of the test: init container killed, main Waiting
PodEvictedDuringInit ==
    [phase |-> PodFailed, reason |-> sEvicted, message |-> msgDiskPressure,
     conditions |-> <<>>,
     initContainerStatuses |->
         <<[name |-> sDelay, state |-> StateTerminated(0), last |-> StateNone]>>,
     containerStatuses |-> <<MainStatus(StateWaiting)>>]

\* the configurations under which a first restart is allowed
E2EConfigs == {c \in Configs : IsEnabled(c) /\ GetMaxRestarts(c) >= 1}

E2EInit ==
    /\ ClassifyIdle
    /\ AuxIdle
    /\ CoordInit
    /\ wf = EmptyWorkflow
    /\ config \in E2EConfigs

\* the first pod is evicted, a replacement runs to completion
E2ETerminates(n) ==
    PodTerminates(n, IF nodes[n].podRef = 1 THEN PodEvictedDuringInit ELSE PodSucceeded)

\* the pass the reconciler makes for the pod bound to the node
CoordinateBound(n) == nodes[n].podRef # NoPod /\ Coordinate(n, nodes[n].podRef)

E2ESchedule == \E n \in NodeIDs : SchedulePod(n)
                  /\ UNCHANGED classifyVars /\ UNCHANGED auxVars
E2EReport == \E n \in NodeIDs : E2ETerminates(n)
                /\ UNCHANGED classifyVars /\ UNCHANGED auxVars
E2EComplete == \E n \in NodeIDs : NodeSucceeds(n)
                  /\ UNCHANGED classifyVars /\ UNCHANGED auxVars
E2ECoordinate == \E n \in NodeIDs : CoordinateBound(n)
                    /\ UNCHANGED classifyVars /\ UNCHANGED auxVars
E2ETick == \E d \in TickSteps : Tick(d)
              /\ UNCHANGED classifyVars /\ UNCHANGED auxVars

E2ENext == E2ESchedule \/ E2EReport \/ E2EComplete \/ E2ECoordinate \/ E2ETick

E2EFairness ==
    /\ WF_vars(E2ESchedule)
    /\ WF_vars(E2EReport)
    /\ WF_vars(E2EComplete)
    /\ WF_vars(E2ECoordinate)

SpecE2E == E2EInit /\ [][E2ENext]_vars /\ E2EFairness

(***************************************************************************)
(* The classifier run: a pod snapshot and a template are presented and     *)
(* the three implementations are applied to them.                          *)
(***************************************************************************)

\* pods that carry no message, condition or init-container status, with
\* every combination of phase, reason and container statuses
CorePods == [phase : PodPhases, reason : Reasons, message : {sEmpty},
             conditions : {<<>>}, initContainerStatuses : {<<>>},
             containerStatuses : ContainerStatusLists]

\* pods with every combination of message, conditions and init-container
\* statuses, around at most one container named "main"
MainStatusLists ==
    {<<>>} \cup {<<s>> : s \in {c \in ContainerStatuses : c.name = MainContainerName}}

SignalPods == [phase : {PodFailed, "Running"}, reason : Reasons, message : Messages,
               conditions : ConditionLists, initContainerStatuses : InitStatusLists,
               containerStatuses : MainStatusLists]

ClassifyInit ==
    /\ \/ pod \in CorePods /\ tmpl \in Templates
       \/ pod \in SignalPods /\ tmpl = NoTemplate
    /\ info = [exact |-> NoInfo, broad |-> NoInfoMessage, exported |-> NoInfoMessage]
    /\ cpc = "input"
    /\ CoordIdle
    /\ AuxIdle

Classify ==
    /\ cpc = "input"
    /\ info' = [exact |-> analyzePodForRestart(pod, tmpl),
                broad |-> analyzePodForRestartBroad(pod, tmpl),
                exported |-> AnalyzePodForRestart(pod, tmpl)]
    /\ cpc' = "classified"
    /\ UNCHANGED <<pod, tmpl>>
    /\ UNCHANGED coordVars
    /\ UNCHANGED auxVars

ClassifyNext == Classify

SpecClassify == ClassifyInit /\ [][ClassifyNext]_vars

(***************************************************************************)
(* The configuration run: a configuration is presented and its getters are *)
(* read (TestFailedPodRestartConfig_IsEnabled, _GetMaxRestarts and         *)
(* _GetBackoffDuration).                                                   *)
(***************************************************************************)
MaxRestartsInputs == {0, 1, 2, 3, 5}
BackoffInputs == {0, 10, 30, 60}

EmptyConfig == Config(FALSE, Absent, Absent)

ConfigInputs ==
    {NilConfig} \cup
    {Config(e, m, b) : e \in BOOLEAN,
                       m \in {Absent} \cup {Some(v) : v \in MaxRestartsInputs},
                       b \in {Absent} \cup {Some(v) : v \in BackoffInputs}}

ConfigInit ==
    /\ ClassifyIdle
    /\ AuxIdle
    /\ wf = EmptyWorkflow
    /\ nodes = [n \in NodeIDs |-> NewNode]
    /\ pods = <<>>
    /\ now = 0
    /\ config \in ConfigInputs
    /\ metric = <<>>
    /\ events = <<>>
    /\ outcome = NoOutcome
    /\ restarts = [n \in NodeIDs |-> <<>>]
    /\ ops = 0

ReadConfig ==
    /\ cpc = "idle"
    /\ settings' = [enabled |-> IsEnabled(config),
                    maxRestarts |-> GetMaxRestarts(config),
                    backoffDuration |-> GetBackoffDuration(config)]
    /\ cpc' = "read"
    /\ UNCHANGED <<pod, tmpl, info>>
    /\ UNCHANGED coordVars
    /\ UNCHANGED <<call, stored, evictionReason, gc>>

ConfigNext == ReadConfig

SpecConfig == ConfigInit /\ [][ConfigNext]_vars

(***************************************************************************)
(* deleteArtifacts and deleteWorker (unnamed/part_001 lines 63-161): the   *)
(* dispatching goroutine, taskWorkers worker goroutines, and the two       *)
(* unbuffered channels taskQueue and responseQueue. A send and the receive *)
(* that takes it are one step. The tasks are the indexes of               *)
(* taskList.Items. The loop of line 77 sends &task: with a loop variable   *)
(* shared by the iterations (Go before 1.22) every pointer is the same     *)
(* variable, with one variable per iteration (Go 1.22 on) each pointer is  *)
(* its own copy; the build decides.                                        *)
(***************************************************************************)
MaxTasks == 3
MaxWorkers == 2
MaxTaskErrs == 1

NoTask == 0

IdleWorker == [pc |-> "recv", ref |-> NoTask, errs |-> 0]

\* the task a pointer sent in iteration ref points to at this moment
Deref(g, ref) == IF g.sharedLoopVar THEN g.loopVar ELSE ref

\* the call: the tasks that List returns, the value of taskWorkers and the
\* loop-variable semantics of the build
GCInit ==
    /\ ClassifyIdle
    /\ CoordIdle
    /\ call = NoCall
    /\ stored = NoStore
    /\ evictionReason = sEmpty
    /\ settings = NoSettings
    /\ \E n \in 0..MaxTasks : \E w \in 1..MaxWorkers : \E shared \in BOOLEAN :
          gc = [pc |-> "list", items |-> n, taskWorkers |-> w, sharedLoopVar |-> shared,
                i |-> 0, loopVar |-> NoTask, closed |-> FALSE, completed |-> 0,
                response |-> NoTask,
                workers |-> [k \in 1..w |-> [pc |-> "unborn", ref |-> NoTask, errs |-> 0]],
                received |-> [t \in 1..n |-> 0],
                patches |-> [t \in 1..n |-> 0],
                result |-> "running", errFrom |-> "none", errTask |-> NoTask]

\* lines 65-75: List, which may fail, then the workers are started
List ==
    /\ gc.pc = "list"
    /\ \/ gc' = [gc EXCEPT !.pc = "returned", !.result = "err", !.errFrom = "list"]
       \/ gc' = [gc EXCEPT !.pc = IF gc.items = 0 THEN "close" ELSE "send",
                           !.i = IF gc.items = 0 THEN 0 ELSE 1,
                           !.loopVar = IF gc.items = 0 THEN NoTask ELSE 1,
                           !.workers = [k \in 1..gc.taskWorkers |-> IdleWorker]]

\* line 78 with line 112: taskQueue <- &task, taken by worker k
SendTask(k) ==
    /\ gc.pc = "send"
    /\ gc.workers[k].pc = "recv"
    /\ gc' = [gc EXCEPT !.pc = "advance",
                        !.workers[k] = [pc |-> "take", ref |-> gc.i, errs |-> 0]]

\* line 77: the next iteration assigns the loop variable, or the loop ends
Advance ==
    /\ gc.pc = "advance"
    /\ IF gc.i < gc.items
       THEN gc' = [gc EXCEPT !.pc = "send", !.i = gc.i + 1, !.loopVar = gc.i + 1]
       ELSE gc' = [gc EXCEPT !.pc = "close"]

\* lines 80-81: close(taskQueue); completed := 0
Close ==
    /\ gc.pc = "close"
    /\ gc' = [gc EXCEPT !.pc = "collect", !.closed = TRUE, !.completed = 0]

\* lines 112-116: the receive from the closed taskQueue
WorkerSeesClosed(k) ==
    /\ gc.workers[k].pc = "recv"
    /\ gc.closed
    /\ gc' = [gc EXCEPT !.workers[k].pc = "sendDone"]

\* lines 120-122: the worker reads the task through the pointer it received
TakeTask(k) ==
    /\ gc.workers[k].pc = "take"
    /\ LET t == Deref(gc, gc.workers[k].ref)
       IN  gc' = [gc EXCEPT !.workers[k].pc = "process",
                            !.received[t] = gc.received[t] + 1]

\* lines 122-158: the artifacts of the task; Relocate or NewDriver may fail
\* for an artifact (lines 133-143), the loop then goes on
Process(k) ==
    /\ gc.workers[k].pc = "process"
    /\ \/ /\ gc.workers[k].errs < MaxTaskErrs
          /\ gc' = [gc EXCEPT !.workers[k].pc = "sendErr"]
       \/ gc' = [gc EXCEPT !.workers[k].pc = "sendComplete"]

\* line 83 with line 117, 135, 141 or 159: a response of worker k is taken
ReceiveResponse(k) ==
    /\ gc.pc = "collect"
    /\ LET wk == gc.workers[k]
       IN  \/ /\ wk.pc = "sendErr"
              /\ gc' = [gc EXCEPT !.pc = "returned", !.result = "err",
                                  !.errFrom = "worker",
                                  !.errTask = Deref(gc, wk.ref),
                                  !.workers[k].pc = "process",
                                  !.workers[k].errs = wk.errs + 1]
           \/ /\ wk.pc = "sendDone"
              /\ IF gc.completed + 1 >= gc.taskWorkers
                 THEN gc' = [gc EXCEPT !.pc = "returned", !.result = "nil",
                                       !.completed = gc.completed + 1,
                                       !.workers[k].pc = "exit"]
                 ELSE gc' = [gc EXCEPT !.completed = gc.completed + 1,
                                       !.workers[k].pc = "exit"]
           \/ /\ wk.pc = "sendComplete"
              /\ gc' = [gc EXCEPT !.pc = "patch", !.response = wk.ref,
                                  !.workers[k].pc = "recv",
                                  !.workers[k].ref = NoTask]

\* lines 96-103: Marshal and Patch of the task named by the response; either
\* may fail
PatchStatus ==
    /\ gc.pc = "patch"
    /\ LET t == Deref(gc, gc.response)
       IN  \/ gc' = [gc EXCEPT !.pc = "collect", !.patches[t] = gc.patches[t] + 1,
                               !.response = NoTask]
           \/ gc' = [gc EXCEPT !.pc = "returned", !.result = "err", !.errFrom = "patch"]

GCFrame == UNCHANGED classifyVars /\ UNCHANGED coordVars
              /\ UNCHANGED <<call, stored, evictionReason, settings>>

GCList == List /\ GCFrame
GCSendTask == (\E k \in DOMAIN gc.workers : SendTask(k)) /\ GCFrame
GCAdvance == Advance /\ GCFrame
GCClose == Close /\ GCFrame
GCWorkerSeesClosed == (\E k \in DOMAIN gc.workers : WorkerSeesClosed(k)) /\ GCFrame
GCTakeTask == (\E k \in DOMAIN gc.workers : TakeTask(k)) /\ GCFrame
GCProcess == (\E k \in DOMAIN gc.workers : Process(k)) /\ GCFrame
GCReceiveResponse == (\E k \in DOMAIN gc.workers : ReceiveResponse(k)) /\ GCFrame
GCPatchStatus == PatchStatus /\ GCFrame

GCNext ==
    \/ GCList
    \/ GCSendTask
    \/ GCAdvance
    \/ GCClose
    \/ GCWorkerSeesClosed
    \/ GCTakeTask
    \/ GCProcess
    \/ GCReceiveResponse
    \/ GCPatchStatus

\* every goroutine that can take a step is scheduled, and every call of the
\* artifact driver and of the API returns
GCFairness ==
    /\ WF_vars(GCList)
    /\ WF_vars(GCSendTask)
    /\ WF_vars(GCAdvance)
    /\ WF_vars(GCClose)
    /\ WF_vars(GCWorkerSeesClosed)
    /\ WF_vars(GCTakeTask)
    /\ WF_vars(GCProcess)
    /\ WF_vars(GCReceiveResponse)
    /\ WF_vars(GCPatchStatus)

SpecGC == GCInit /\ [][GCNext]_vars /\ GCFairness

(***************************************************************************)
(* The eviction-reason run: a pod status is presented and getEvictionReason *)
(* is applied to it (TestGetEvictionReason, unnamed/part_003 347-401).     *)
(***************************************************************************)
msgEmptyBrackets == <<"[", "]">>
msgUnclosed == <<"a", "[", "b">>
msgCloseFirst == <<"]", "a", "[">>
msgTwoBrackets == <<"[", "a", "]", "[", "b", "]">>

ExtractMessages == Messages \cup {msgMemoryPressure, msgContainerKilled, msgNoBrackets,
                                  msgEmptyBrackets,
                                  msgUnclosed, msgCloseFirst, msgTwoBrackets}

ExtractPods == [phase : PodPhases, reason : Reasons, message : ExtractMessages,
                conditions : {<<>>}, initContainerStatuses : {<<>>},
                containerStatuses : {<<>>}]

ExtractInit ==
    /\ pod \in ExtractPods
    /\ tmpl = NoTemplate
    /\ info = [exact |-> NoInfo, broad |-> NoInfoMessage, exported |-> NoInfoMessage]
    /\ cpc = "input"
    /\ CoordIdle
    /\ AuxIdle

Extract ==
    /\ cpc = "input"
    /\ evictionReason' = getEvictionReason(pod)
    /\ cpc' = "extracted"
    /\ UNCHANGED <<pod, tmpl, info>>
    /\ UNCHANGED coordVars
    /\ UNCHANGED <<call, stored, settings, gc>>

ExtractNext == Extract

SpecExtract == ExtractInit /\ [][ExtractNext]_vars

(***************************************************************************)
(* Properties of the classifier, checked under SpecClassify.               *)
(***************************************************************************)
Classified == cpc = "classified"

\* the closed set of restartable reasons of the data model
SpecRestartableReasons ==
    {sEvicted, sPreempted, sNodeShutdown, sNodeAffinity, sUnexpectedAdmissionError}

MainStatuses(p, t) ==
    {p.containerStatuses[i] : i \in {j \in 1..Len(p.containerStatuses) :
                                        isMainContainer(t, p.containerStatuses[j])}}

\* some main container shows that it ran: Running as current or
\* last-termination state, or Terminated with a non-zero startedAt as
\* current or last-termination state
MainHasRun(p, t) ==
    \E c \in MainStatuses(p, t) :
        \/ c.state.kind = "Running"
        \/ c.last.kind = "Running"
        \/ c.state.kind = "Terminated" /\ c.state.startedAt # 0
        \/ c.last.kind = "Terminated" /\ c.last.startedAt # 0

\* C3: the classifier never returns shouldRestart = true for a pod in which
\* some main container has run (Running, or Terminated with a non-zero
\* startedAt, as current or as last-termination state).
C3_NoRestartAfterMainRan ==
    (Classified /\ MainHasRun(pod, tmpl)) => ~info.exact.shouldRestart

\* C4: for a Failed pod whose main containers never started, shouldRestart
\* is true if and only if the terminal reason is one of Evicted, Preempted,
\* NodeShutdown, NodeAffinity, UnexpectedAdmissionError.
C4_RestartIffRestartableReason ==
    (Classified /\ pod.phase = PodFailed /\ ~MainHasRun(pod, tmpl))
        => (info.exact.shouldRestart <=> pod.reason \in SpecRestartableReasons)

\* C5: for a pod whose phase is not Failed, every implementation returns
\* shouldRestart = false and neverStarted = false.
C5_NonFailedPodNotClassified ==
    (Classified /\ pod.phase # PodFailed)
        => \A impl \in DOMAIN info :
              ~info[impl].shouldRestart /\ ~info[impl].neverStarted

\* a pod of another phase that carries every sign of a restartable failure
C5_Witness ==
    /\ Classified
    /\ pod.phase = "Unknown"
    /\ pod.reason = sEvicted
    /\ Len(pod.containerStatuses) = 1
    /\ pod.containerStatuses[1].name = MainContainerName
    /\ pod.containerStatuses[1].state.kind = "Waiting"
    /\ ~info.exact.shouldRestart

MainIsOrWasRunning(p, t) ==
    \E c \in MainStatuses(p, t) : c.state.kind = "Running" \/ c.last.kind = "Running"

\* C6: for a pod in which a main container's current or last-termination
\* state is Running, the classifier returns shouldRestart = false and
\* neverStarted = false, whatever the init-container statuses are.
C6_RunningMainNeverRestarted ==
    (Classified /\ MainIsOrWasRunning(pod, tmpl))
        => \A impl \in {"exact", "exported"} :
              ~info[impl].shouldRestart /\ ~info[impl].neverStarted

\* C7: for a Failed pod where every main container is Terminated with
\* startedAt = 0 (and none has a Running last-termination state) and the
\* reason is in the restartable set, the classifier returns
\* shouldRestart = true and neverStarted = true.
C7_NeverStartedRestartableRestarts ==
    (/\ Classified
     /\ pod.phase = PodFailed
     /\ MainStatuses(pod, tmpl) # {}
     /\ \A c \in MainStatuses(pod, tmpl) :
           c.state.kind = "Terminated" /\ c.state.startedAt = 0 /\ c.last.kind # "Running"
     /\ pod.reason \in SpecRestartableReasons)
        => info.exact.shouldRestart /\ info.exact.neverStarted

\* C8: for every pod and template, every implementation's result satisfies
\* shouldRestart = true implies neverStarted = true.
C8_RestartImpliesNeverStarted ==
    Classified => \A impl \in DOMAIN info :
                     info[impl].shouldRestart => info[impl].neverStarted

\* a pod that is restarted, next to a non-main container that is Running
C8_Witness ==
    /\ Classified
    /\ info.exact.shouldRestart
    /\ info.exact.neverStarted
    /\ \E i \in 1..Len(pod.containerStatuses) :
          pod.containerStatuses[i].state.kind = "Running"

(***************************************************************************)
(* Properties of the coordinator, checked under Spec.                      *)
(***************************************************************************)
Range(f) == {f[i] : i \in DOMAIN f}

\* the pass recorded in `outcome` was made for node n
PassFor(n) == outcome.kind # "None" /\ outcome.node = n

\* C1: under an enabled configuration and starting from a counter of 0, the
\* number of Restarted outcomes of a node and its restart counter never
\* exceed config.maxRestarts; no pass that reads a counter at or above
\* maxRestarts returns Restarted, and such a pass on a restartable pod
\* returns Failed("max restarts exceeded"); with maxRestarts = 0 no pass
\* returns Restarted.
C1_RestartsBoundedByMaxRestarts ==
    IsEnabled(config) =>
        \A n \in NodeIDs :
            /\ Len(restarts[n]) <= GetMaxRestarts(config)
            /\ getFailedPodRestartCount(wf, n) <= GetMaxRestarts(config)
            /\ (PassFor(n) /\ outcome.kind = "Restarted")
                  => outcome.readCount < GetMaxRestarts(config)
            /\ (/\ PassFor(n)
                /\ outcome.readCount >= GetMaxRestarts(config)
                /\ outcome.shouldRestart)
                  => outcome.kind = "Failed" /\ outcome.reason = sMaxRestartsExceeded
            /\ GetMaxRestarts(config) = 0 => outcome.kind # "Restarted"

\* the budget was used up by restarts and the next failed pod is refused
C1_Witness ==
    \E n \in NodeIDs :
        /\ IsEnabled(config)
        /\ GetMaxRestarts(config) > 0
        /\ Len(restarts[n]) = GetMaxRestarts(config)
        /\ PassFor(n)
        /\ outcome.kind = "Failed"
        /\ outcome.reason = sMaxRestartsExceeded
        /\ outcome.readCount = GetMaxRestarts(config)

\* C2: a pod yields Restarted at most once: a later pass with the same,
\* now detached, pod returns NotApplicable and leaves the counter alone, so
\* the counter equals the number of restarted pods, and every pass reads
\* the counter as incremented by the restarts before it.
C2_NoDoubleIncrement ==
    \A n \in NodeIDs :
        /\ \A i, j \in 1..Len(restarts[n]) : restarts[n][i] = restarts[n][j] => i = j
        /\ getFailedPodRestartCount(wf, n) = Len(restarts[n])
        /\ PassFor(n) =>
              /\ outcome.kind = "Restarted"
                    => /\ restarts[n][Len(restarts[n])] = outcome.pod
                       /\ outcome.readCount = Len(restarts[n]) - 1
              /\ outcome.kind # "Restarted"
                    => /\ outcome.readCount = Len(restarts[n])
                       /\ outcome.pod \in Range(restarts[n])
                             => outcome.kind = "NotApplicable"

\* the pod that was restarted is passed again before a replacement exists
C2_Witness ==
    \E n \in NodeIDs :
        /\ PassFor(n)
        /\ outcome.kind = "NotApplicable"
        /\ outcome.pod \in Range(restarts[n])
        /\ nodes[n].podRef = NoPod
        /\ getFailedPodRestartCount(wf, n) = 1

\* C9: after a pass that returned Restarted, node.failedPodRestarts equals
\* the value of the node's restart-count annotation, and both are one
\* greater than the counter read at the start of the pass.
C9_NodeCounterMatchesAnnotation ==
    \A n \in NodeIDs :
        (PassFor(n) /\ outcome.kind = "Restarted")
            => /\ wf.hasAnnotations
               /\ AnnotationKey(n) \in DOMAIN wf.annotations
               /\ wf.annotations[AnnotationKey(n)] = FormatInt(nodes[n].failedPodRestarts)
               /\ nodes[n].failedPodRestarts = getFailedPodRestartCount(wf, n)
               /\ nodes[n].failedPodRestarts = outcome.readCount + 1

\* the second restart of a node
C9_Witness ==
    \E n \in NodeIDs :
        /\ PassFor(n)
        /\ outcome.kind = "Restarted"
        /\ outcome.readCount = 1
        /\ nodes[n].failedPodRestarts = 2

(***************************************************************************)
(* Properties of the counter, checked under SpecCounter.                   *)
(***************************************************************************)
\* C10: across coordinator passes and increment operations, the restart
\* count that getFailedPodRestartCount returns for a node never decreases.
C10_CountNeverDecreases ==
    [][\A n \in NodeIDs :
          getFailedPodRestartCount(wf', n) >= getFailedPodRestartCount(wf, n)]_vars

(***************************************************************************)
(* Properties of the accountant, checked under SpecAccountant.             *)
(***************************************************************************)
\* the value stored for the node of the last call, before and after the call
StoredBefore == call.before.annotations[AnnotationKey(call.node)]
HadValue == call.before.hasAnnotations
               /\ AnnotationKey(call.node) \in DOMAIN call.before.annotations
HasValue == wf.hasAnnotations /\ AnnotationKey(call.node) \in DOMAIN wf.annotations

\* C11: increment returns get + 1 and stores its decimal encoding, so that
\* the next increment returns one more; this for every counter value read,
\* the largest (2^31 - 1) included, where the result must not wrap to a
\* negative value.
C11_IncrementAddsOne ==
    call.op = "increment" =>
        LET k == getFailedPodRestartCount(call.before, call.node)
        IN  /\ call.result > k
            /\ k < MaxInt32 => call.result = k + 1
            /\ HasValue
            /\ wf.annotations[AnnotationKey(call.node)] = FormatInt(call.result)
            /\ getFailedPodRestartCount(wf, call.node) = call.result

\* C12: get returns 0 when the annotations map is missing, when the node's
\* annotation is absent and when its value is malformed (not decimal, or
\* out of the 32-bit range), and leaves the annotations as they were.
C12_GetZeroOnAbsentOrMalformed ==
    (call.op = "get" /\ (~HadValue \/ StoredBefore \in MalformedValues))
        => call.result = 0 /\ wf = call.before

\* get on a value one above the largest int32
C12_Witness ==
    /\ call.op = "get"
    /\ HadValue
    /\ StoredBefore = <<"2", "1", "4", "7", "4", "8", "3", "6", "4", "8">>
    /\ call.result = 0
    /\ wf = call.before

\* C13: get returns a value in [0, 2^31 - 1] for every content of the
\* annotation; a negative number such as "-5" yields 0.
C13_GetNonNegative ==
    call.op = "get" => call.result >= 0 /\ call.result <= MaxInt32

\* C14: after set(wf, n, k) with k in [0, 2^31), get(wf, n) returns k,
\* whatever the workflow held before (no map, no annotation, a well-formed
\* or a malformed value); the set creates the map where there was none.
C14_SetGetRoundTrip ==
    (call.op = "set" /\ call.count >= 0)
        => /\ wf.hasAnnotations
           /\ getFailedPodRestartCount(wf, call.node) = call.count

\* the largest count set on a workflow without an annotations map
C14_Witness ==
    /\ call.op = "set"
    /\ ~call.before.hasAnnotations
    /\ call.count = MaxInt32
    /\ wf.hasAnnotations
    /\ getFailedPodRestartCount(wf, call.node) = MaxInt32

\* C15: set returns changed = true exactly when the value stored before the
\* call differs from the decimal encoding of count (an absent annotation
\* differs); a set that returns false modifies nothing.
C15_SetReportsChange ==
    call.op = "set" =>
        /\ call.changed <=> (~HadValue \/ StoredBefore # FormatInt(call.count))
        /\ ~call.changed => wf = call.before
        /\ HasValue /\ wf.annotations[AnnotationKey(call.node)] = FormatInt(call.count)

\* a set of the value that is stored already
C15_Witness ==
    /\ call.op = "set"
    /\ HadValue
    /\ StoredBefore = FormatInt(call.count)
    /\ ~call.changed
    /\ wf = call.before

(***************************************************************************)
(* Properties of the policy gate and of the coordinator's use of it,       *)
(* checked under Spec.                                                     *)
(***************************************************************************)
\* the step is a coordinator pass for node n that went beyond step 1
PassStep(n) ==
    outcome' # outcome /\ outcome'.node = n /\ outcome'.kind # "NotApplicable"

\* what that pass computes from the state it starts in
PassClassification == analyzePodForRestart(pods[outcome'.pod].snap, NodeTemplate)
InBackoff(n) ==
    /\ nodes[n].lastAttemptAt.present
    /\ now - nodes[n].lastAttemptAt.value < GetBackoffDuration(config)

\* the inputs the gate is asked about in a state
GateClassifications == {analyzePodForRestart(snap, NodeTemplate) : snap \in TerminalSnapshots}
GateCounts == 0..MaxPods
GateAttempts == {Absent, Some(0), Some(now)}

\* C16: with an absent or disabled configuration the gate returns
\* Fail("restart disabled") for every classification and every counter
\* value; the coordinator then never returns Restarted and never increments
\* the counter.
C16_DisabledNeverRestarts ==
    (~config.present \/ ~config.enabled) =>
        /\ \A c \in GateClassifications : \A k \in GateCounts : \A la \in GateAttempts :
              decide(c, k, config, now, la) = CmdFail(sRestartDisabled)
        /\ outcome.kind \notin {"Restarted", "Pending"}
        /\ outcome.kind = "Failed" => outcome.reason = sRestartDisabled
        /\ \A n \in NodeIDs :
              /\ restarts[n] = <<>>
              /\ getFailedPodRestartCount(wf, n) = 0
              /\ nodes[n].failedPodRestarts = 0

\* a restartable pod is refused under a disabled configuration
C16_Witness ==
    /\ config.present
    /\ ~config.enabled
    /\ outcome.kind = "Failed"
    /\ outcome.reason = sRestartDisabled
    /\ outcome.shouldRestart
    /\ nodes[outcome.node].phase = "Failed"

\* C17: a pass on a restartable pod with budget left, made less than
\* backoffDuration after lastAttemptAt, returns Pending(lastAttemptAt +
\* backoffDuration) and leaves the counter, node.failedPodRestarts and the
\* metric unchanged; Pending is returned in no other case, and no restart
\* of a node comes less than backoffDuration after the previous one.
C17_BackoffDefers ==
    [][\A n \in NodeIDs :
          /\ (/\ PassStep(n)
              /\ IsEnabled(config)
              /\ PassClassification.shouldRestart
              /\ getFailedPodRestartCount(wf, n) < GetMaxRestarts(config)
              /\ InBackoff(n))
                => /\ outcome'.kind = "Pending"
                   /\ outcome'.until = nodes[n].lastAttemptAt.value
                                          + GetBackoffDuration(config)
                   /\ nodes'[n].requeueAt = Some(outcome'.until)
                   /\ wf' = wf
                   /\ nodes'[n].failedPodRestarts = nodes[n].failedPodRestarts
                   /\ metric' = metric
                   /\ restarts' = restarts
          /\ (PassStep(n) /\ outcome'.kind = "Pending") => InBackoff(n)
          /\ (Len(restarts'[n]) > Len(restarts[n]) /\ nodes[n].lastAttemptAt.present)
                => now - nodes[n].lastAttemptAt.value >= GetBackoffDuration(config)
      ]_vars

\* the backoff scenario: counter 1, last attempt 10 s ago, backoff 30 s
C17_Witness ==
    \E n \in NodeIDs :
        /\ PassFor(n)
        /\ outcome.kind = "Pending"
        /\ GetBackoffDuration(config) = DefaultBackoffSeconds
        /\ nodes[n].lastAttemptAt = Some(now - 10)
        /\ outcome.until = now + 20
        /\ getFailedPodRestartCount(wf, n) = 1
        /\ nodes[n].failedPodRestarts = 1

\* C18: the gate's rules apply in the order disabled, not restartable,
\* budget, backoff, restart, the first that matches deciding: a pod that is
\* not restartable fails with the classifier's reason also when the counter
\* is at or above maxRestarts, and an exhausted budget fails with "max
\* restarts exceeded" also inside the backoff window.
C18_RulesInOrder ==
    [][\A n \in NodeIDs :
          PassStep(n) =>
              LET c == PassClassification
                  k == getFailedPodRestartCount(wf, n)
              IN  IF ~IsEnabled(config)
                  THEN outcome'.kind = "Failed" /\ outcome'.reason = sRestartDisabled
                  ELSE IF ~c.shouldRestart
                  THEN outcome'.kind = "Failed" /\ outcome'.reason = c.reason
                  ELSE IF k >= GetMaxRestarts(config)
                  THEN outcome'.kind = "Failed" /\ outcome'.reason = sMaxRestartsExceeded
                  ELSE IF InBackoff(n)
                  THEN outcome'.kind = "Pending"
                  ELSE outcome'.kind = "Restarted"
      ]_vars

\* a pod that is not restartable fails with its own reason although the
\* budget is used up and the backoff window is open
C18_Witness ==
    \E n \in NodeIDs :
        /\ PassFor(n)
        /\ IsEnabled(config)
        /\ outcome.kind = "Failed"
        /\ outcome.reason = sOOMKilled
        /\ ~outcome.shouldRestart
        /\ outcome.readCount >= GetMaxRestarts(config)
        /\ outcome.readCount > 0
        /\ InBackoff(n)

C20_StoredCounterOncePerPod ==
    [][/\ \A n \in NodeIDs :
             /\ getFailedPodRestartCount(stored'.wf, n)
                   = Cardinality(Range(stored'.restarts[n]))
             /\ getFailedPodRestartCount(stored'.wf, n)
                   <= getFailedPodRestartCount(stored.wf, n) + 1
             /\ stored'.nodes[n].failedPodRestarts
                   = getFailedPodRestartCount(stored'.wf, n)
       /\ (outcome' # outcome /\ outcome'.kind = "NotApplicable")
             => UNCHANGED <<wf, nodes, metric, events, restarts, stored>>
      ]_vars

\* the write of a restart was lost, the pod was restarted again, and the
\* stored counter is 1
C20_Witness ==
    \E n \in NodeIDs : \E p \in 1..MaxPods :
        /\ restarts[n] = <<p, p>>
        /\ stored.restarts[n] = <<p, p>>
        /\ getFailedPodRestartCount(stored.wf, n) = 1
        /\ stored.nodes[n].podRef = NoPod
        /\ ~Dirty

(***************************************************************************)
(* Properties of the end-to-end run, checked under SpecE2E.                *)
(***************************************************************************)
\* the first pod of node n was evicted before its main container started
FirstPodEvicted(n) ==
    /\ Len(pods) >= 1
    /\ nodes[n].podRef = 1
    /\ pods[1].snap = PodEvictedDuringInit

\* node n succeeded on another pod than the first, after one restart
SucceededOnReplacement(n) ==
    /\ nodes[n].phase = "Succeeded"
    /\ nodes[n].podRef \notin {NoPod, 1}
    /\ pods[nodes[n].podRef].snap.phase = "Succeeded"
    /\ nodes[n].failedPodRestarts = 1

\* C21: a pod evicted before its main container starts (Failed, Evicted,
\* main container Waiting) is eventually replaced by a different pod, and
\* the workflow eventually reaches Succeeded with the node's
\* FailedPodRestarts equal to 1.
C21_EvictedPodEventuallyReplaced ==
    \A n \in NodeIDs : FirstPodEvicted(n) ~> SucceededOnReplacement(n)

\* the workflow succeeded on the second pod
C21_Witness ==
    \E n \in NodeIDs :
        /\ SucceededOnReplacement(n)
        /\ pods[1].snap = PodEvictedDuringInit
        /\ restarts[n] = <<1>>
        /\ getFailedPodRestartCount(wf, n) = 1

(***************************************************************************)
(* The eviction-reason helper, checked under SpecExtract.                  *)
(***************************************************************************)
Extracted == cpc = "extracted"

\* the pairs of positions of an opening bracket and a later closing bracket
BracketPairs(msg) ==
    {ij \in (1..Len(msg)) \X (1..Len(msg)) :
        ij[1] < ij[2] /\ msg[ij[1]] = "[" /\ msg[ij[2]] = "]"}

NoBrackets(msg) == \A i \in 1..Len(msg) : msg[i] # "[" /\ msg[i] # "]"

\* C22: for a pod whose reason is Evicted and whose message contains a
\* bracketed substring [X], getEvictionReason returns X; for an Evicted pod
\* whose message has no brackets it returns the reason "Evicted"; for every
\* other reason it returns the empty string.
C22_EvictionReasonExtracted ==
    Extracted =>
        /\ pod.reason # sEvicted => evictionReason = sEmpty
        /\ (pod.reason = sEvicted /\ BracketPairs(pod.message) # {}) =>
               \E ij \in BracketPairs(pod.message) :
                   evictionReason = SubSeq(pod.message, ij[1] + 1, ij[2] - 1)
        /\ (pod.reason = sEvicted /\ NoBrackets(pod.message)) =>
               evictionReason = sEvicted
        /\ (pod.reason = sEvicted /\ pod.message = msgDiskPressure) =>
               evictionReason = sDiskPressure
        /\ (pod.reason = sEvicted /\ pod.message = msgMemoryPressure) =>
               evictionReason = sMemoryPressure

C22_Witness ==
    /\ Extracted
    /\ pod.reason = sEvicted
    /\ pod.message = msgDiskPressure
    /\ evictionReason = sDiskPressure

C22_Witness_NoBrackets ==
    /\ Extracted
    /\ pod.reason = sEvicted
    /\ pod.message = msgNoBrackets
    /\ evictionReason = sEvicted

(***************************************************************************)
(* The restart metric, checked under Spec.                                 *)
(***************************************************************************)
sOther == <<"o", "t", "h", "e", "r">>

RECURSIVE SumOf(_, _)
SumOf(f, keys) ==
    IF keys = {} THEN 0
    ELSE LET k == CHOOSE x \in keys : TRUE IN f[k] + SumOf(f, keys \ {k})

\* the number of increments of the metric, over all labels
MetricTotal == SumOf(metric, DOMAIN metric)
MetricTotalNext == SumOf(metric', DOMAIN metric')

\* C23: every reason label of workflow_failed_pod_restarts_total is one of
\* the restartable reasons Evicted, Preempted, NodeShutdown, NodeAffinity,
\* UnexpectedAdmissionError or is "other", and the metric is incremented by
\* exactly 1 in a pass that returns Restarted and not at all otherwise.
C23_MetricLabelsBounded ==
    /\ [](DOMAIN metric \subseteq SpecRestartableReasons \cup {sOther})
    /\ [][IF \E n \in NodeIDs : PassStep(n) /\ outcome'.kind = "Restarted"
          THEN MetricTotalNext = MetricTotal + 1
          ELSE metric' = metric]_vars

\* the part of C23 about the increments alone
C23_IncrementedOncePerRestart ==
    [][IF \E n \in NodeIDs : PassStep(n) /\ outcome'.kind = "Restarted"
       THEN /\ MetricTotalNext = MetricTotal + 1
            /\ \E l \in DOMAIN metric' :
                  metric' = CounterInc(metric, l)
       ELSE metric' = metric]_vars

\* the label taken from the message of an evicted pod
C23_LabelFromMessage ==
    /\ sDiskPressure \in DOMAIN metric
    /\ sDiskPressure \notin SpecRestartableReasons \cup {sOther}

(***************************************************************************)
(* What the classification depends on, checked under SpecClassify.         *)
(***************************************************************************)
\* the pods that differ from p at most in the terminal message, the pod
\* conditions and the init-container statuses
Variants(p) ==
    {[p EXCEPT !.message = m, !.conditions = cs, !.initContainerStatuses = is] :
        m \in Messages, cs \in ConditionLists, is \in InitStatusLists}

SameDecision(a, b) ==
    a.shouldRestart = b.shouldRestart /\ a.neverStarted = b.neverStarted

\* C24: the classification depends only on the pod phase, the terminal
\* reason and the main-container statuses: pods that differ only in the
\* terminal message, the pod conditions or the init-container statuses get
\* the same shouldRestart and neverStarted, in analyzePodForRestart of
\* pod_restart.go and in AnalyzePodForRestart of unnamed/part_004.
C24_DependsOnlyOnCoreFields ==
    Classified =>
        \A q \in Variants(pod) :
            /\ SameDecision(analyzePodForRestart(q, tmpl), info.exact)
            /\ SameDecision(AnalyzePodForRestart(q, tmpl), info.exported)

\* the part of C24 about analyzePodForRestart of pod_restart.go alone
C24_ExactDependsOnlyOnCoreFields ==
    Classified =>
        \A q \in Variants(pod) : SameDecision(analyzePodForRestart(q, tmpl), info.exact)

\* a pod that AnalyzePodForRestart restarts because of its message alone
C24_MessageDecides ==
    /\ Classified
    /\ pod.phase = PodFailed
    /\ pod.reason = sEmpty
    /\ pod.message = msgPreempted
    /\ pod.conditions = <<>>
    /\ pod.initContainerStatuses = <<>>
    /\ info.exported.shouldRestart
    /\ ~AnalyzePodForRestart([pod EXCEPT !.message = sEmpty], tmpl).shouldRestart

\* a pod whose main container ran and that AnalyzePodForRestart reports as
\* never started because of an init-container status
C24_InitStatusDecides ==
    /\ Classified
    /\ pod.phase = PodFailed
    /\ pod.reason = sEvicted
    /\ pod.initContainerStatuses # <<>>
    /\ info.exported.neverStarted
    /\ ~AnalyzePodForRestart([pod EXCEPT !.initContainerStatuses = <<>>], tmpl).neverStarted

(***************************************************************************)
(* The broader reason test of unnamed/part_003, checked under SpecClassify *)
(* on the Failed pods without a started main container, for which          *)
(* shouldRestart is the value of isRestartableReason.                      *)
(***************************************************************************)
BroadReasonTested == Classified /\ pod.phase = PodFailed /\ info.broad.neverStarted

DisruptionTargetIs(p, status) ==
    \E i \in 1..Len(p.conditions) :
        p.conditions[i].type = sDisruptionTarget /\ p.conditions[i].status = status

NoMessageSignal(msg) ==
    /\ ~Contains(msg, patNodeCondition)
    /\ ~Contains(msg, patPreempted)
    /\ ~Contains(msg, patPreemptedLower)
    /\ ~Contains(msg, patNodeShuttingDown)

C25_Witness_DisruptionTarget ==
    /\ BroadReasonTested
    /\ pod.reason = sEmpty
    /\ pod.message = sEmpty
    /\ DisruptionTargetIs(pod, ConditionTrue)
    /\ info.broad.shouldRestart

\* the test case "generic error"
C25_Witness_Error ==
    /\ BroadReasonTested
    /\ pod.reason = sError
    /\ pod.message = msgSomeError
    /\ ~info.broad.shouldRestart

(***************************************************************************)
(* The configuration getters, checked under SpecConfig.                    *)
(***************************************************************************)
ConfigRead == cpc = "read"

C26_Witness_Nil ==
    /\ ConfigRead
    /\ config = NilConfig
    /\ settings = [enabled |-> FALSE, maxRestarts |-> 3, backoffDuration |-> 30]

(***************************************************************************)
(* The never-started test and the agreement of the implementations,        *)
(* checked under SpecClassify.                                             *)
(***************************************************************************)
\* C27: for a Failed pod with an empty container-status list the classifier
\* returns neverStarted = true, and shouldRestart = true exactly when the
\* reason is one of the restartable reasons.
C27_EmptyStatusList ==
    (Classified /\ pod.phase = PodFailed /\ pod.containerStatuses = <<>>)
        => /\ info.exact.neverStarted
           /\ info.exact.shouldRestart <=> pod.reason \in SpecRestartableReasons

\* the part of C27 about neverStarted alone
C27_EmptyStatusListNeverStarted ==
    (Classified /\ pod.phase = PodFailed /\ pod.containerStatuses = <<>>)
        => /\ info.exact.neverStarted
           /\ info.broad.neverStarted

\* a Preempted pod without container statuses that is not restarted
C27_PreemptedNotRestarted ==
    /\ Classified
    /\ pod.phase = PodFailed
    /\ pod.containerStatuses = <<>>
    /\ pod.reason = sPreempted
    /\ info.exact.neverStarted
    /\ ~info.exact.shouldRestart

\* the main-container predicate as the data model states it
NamedMain(t, name) == IF t.present THEN name \in t.mainNames ELSE name = MainContainerName

NonMainIndexes(p, t) ==
    {i \in 1..Len(p.containerStatuses) : ~NamedMain(t, p.containerStatuses[i].name)}

\* the pods that differ from p in the state of one non-main container
NonMainVariants(p, t) ==
    {[p EXCEPT !.containerStatuses[i] = [name |-> p.containerStatuses[i].name,
                                         state |-> st, last |-> lt]] :
        i \in NonMainIndexes(p, t), st \in CurrentStates, lt \in LastStates}

\* C28: neverStarted is decided by the statuses of the main containers only
\* (those the template accepts, or the one named "main" without a
\* template): changing the state of a non-main container, also to Running
\* or to Terminated with a non-zero startedAt, does not change it, and a
\* non-empty status list without a main container gives neverStarted = true.
C28_OnlyMainContainersDecide ==
    (Classified /\ pod.phase = PodFailed) =>
        /\ \A q \in NonMainVariants(pod, tmpl) :
              /\ analyzePodForRestart(q, tmpl).neverStarted = info.exact.neverStarted
              /\ analyzePodForRestartBroad(q, tmpl).neverStarted = info.broad.neverStarted
        /\ (/\ pod.containerStatuses # <<>>
            /\ NonMainIndexes(pod, tmpl) = 1..Len(pod.containerStatuses))
              => info.exact.neverStarted /\ info.broad.neverStarted

\* a main container that waits beside a sidecar that runs
C28_Witness ==
    /\ Classified
    /\ pod.phase = PodFailed
    /\ tmpl = NoTemplate
    /\ Len(pod.containerStatuses) = 2
    /\ pod.containerStatuses[1].name = sStep
    /\ pod.containerStatuses[1].state.kind = "Running"
    /\ pod.containerStatuses[2].name = MainContainerName
    /\ pod.containerStatuses[2].state.kind = "Waiting"
    /\ pod.containerStatuses[2].last.kind = "None"
    /\ info.exact.neverStarted
    /\ info.broad.neverStarted

\* a status list without a main container, its only container having run
C28_Witness_NoMain ==
    /\ Classified
    /\ pod.phase = PodFailed
    /\ tmpl = Template({MainContainerName})
    /\ Len(pod.containerStatuses) = 1
    /\ pod.containerStatuses[1].name = sStep
    /\ pod.containerStatuses[1].state = StateTerminated(1)
    /\ info.exact.neverStarted

NoSignals(p) ==
    p.message = sEmpty /\ p.conditions = <<>> /\ p.initContainerStatuses = <<>>

\* C30: the exact-match classifier of pod_restart.go and the broader ones of
\* unnamed/part_003 and unnamed/part_004 return the same shouldRestart and
\* neverStarted for every pod whose terminal message, pod conditions and
\* init-container statuses are empty.
C30_ImplementationsAgree ==
    (Classified /\ NoSignals(pod))
        => /\ SameDecision(info.exact, info.broad)
           /\ SameDecision(info.exact, info.exported)

\* the agreement outside the reason Preempted
C30_AgreeExceptPreempted ==
    (Classified /\ NoSignals(pod) /\ pod.reason # sPreempted)
        => /\ SameDecision(info.exact, info.broad)
           /\ SameDecision(info.exact, info.exported)

\* a Preempted pod on which the implementations differ
C30_PreemptedDiffers ==
    /\ Classified
    /\ NoSignals(pod)
    /\ pod.phase = PodFailed
    /\ pod.reason = sPreempted
    /\ ~info.exact.shouldRestart
    /\ info.broad.shouldRestart
    /\ info.exported.shouldRestart

(***************************************************************************)
(* Independence of the counters of distinct nodes, checked under           *)
(* SpecAccountant.                                                         *)
(***************************************************************************)
\* the workflow w without the annotations of the nodes other than n
OwnOnly(w, n) ==
    [w EXCEPT !.annotations =
        [k \in DOMAIN w.annotations \cap {AnnotationKey(n)} |-> w.annotations[k]]]

OtherKeys(w, n) == DOMAIN w.annotations \ {AnnotationKey(n)}

\* C29: the counters of distinct nodes are independent: get(wf, n) returns
\* what it returns without the annotations of the other nodes (0 when n has
\* none), and set(wf, n, k) and increment(wf, n) leave every annotation
\* other than the one keyed by the prefix followed by n as it was.
C29_CountersIndependent ==
    /\ call.op = "get" =>
          /\ call.result = getFailedPodRestartCount(OwnOnly(call.before, call.node), call.node)
          /\ ~HadValue => call.result = 0
    /\ call.op \in {"set", "increment"} =>
          /\ OtherKeys(wf, call.node) = OtherKeys(call.before, call.node)
          /\ \A k \in OtherKeys(call.before, call.node) :
                wf.annotations[k] = call.before.annotations[k]

\* a set for one node on a workflow that holds the count of another
C29_Witness ==
    /\ call.op = "set"
    /\ call.node \in NodeIDs
    /\ call.count = 2
    /\ AnnotationKey(OtherNodeID) \in DOMAIN call.before.annotations
    /\ call.before.annotations[AnnotationKey(OtherNodeID)] = <<"5">>
    /\ wf.annotations[AnnotationKey(OtherNodeID)] = <<"5">>
    /\ wf.annotations[AnnotationKey(call.node)] = <<"2">>

\* a get for one node on a workflow that holds the count of another only
C29_Witness_Get ==
    /\ call.op = "get"
    /\ call.node \in NodeIDs
    /\ call.before = OtherNodeWorkflow
    /\ call.result = 0

\* an increment for one node on a workflow that holds the count of another
C29_Witness_Increment ==
    /\ call.op = "increment"
    /\ call.node = OtherNodeID
    /\ OtherKeys(call.before, call.node) # {}
    /\ call.result = 6

(***************************************************************************)
(* The positions getEvictionReason reads, checked under SpecExtract.       *)
(***************************************************************************)
\* the positions of the character ch in msg
Positions(msg, ch) == {i \in 1..Len(msg) : msg[i] = ch}

Least(S) == CHOOSE i \in S : \A k \in S : i <= k

\* the positions of the closing brackets after the first opening bracket
ClosingAfterFirstOpening(msg) ==
    IF Positions(msg, "[") = {} THEN {}
    ELSE {j \in Positions(msg, "]") : j > Least(Positions(msg, "["))}

\* the text strictly between the first '[' and the first ']' after it
BetweenFirstBrackets(msg) ==
    SubSeq(msg, Least(Positions(msg, "[")) + 1, Least(ClosingAfterFirstOpening(msg)) - 1)

\* the part of C31 about the positions alone
C31_FirstBracketPair ==
    (Extracted /\ pod.reason = sEvicted) =>
        IF ClosingAfterFirstOpening(pod.message) # {}
        THEN evictionReason = BetweenFirstBrackets(pod.message)
        ELSE evictionReason = sEvicted

\* C31: for an Evicted pod getEvictionReason returns the text strictly
\* between the first '[' of the message and the first ']' after it; without
\* a '[', or without a ']' after the first '[' (a ']' before it included),
\* it returns "Evicted"; the result is never empty for an Evicted pod.
C31_EvictionReasonNeverEmpty ==
    (Extracted /\ pod.reason = sEvicted) =>
        /\ IF ClosingAfterFirstOpening(pod.message) # {}
           THEN evictionReason = BetweenFirstBrackets(pod.message)
           ELSE evictionReason = sEvicted
        /\ evictionReason # sEmpty

\* an Evicted pod whose message is "[]"
C31_EmptyBrackets ==
    /\ Extracted
    /\ pod.reason = sEvicted
    /\ pod.message = msgEmptyBrackets
    /\ evictionReason = sEmpty

\* a closing bracket before the only opening one
C31_CloseFirst ==
    /\ Extracted
    /\ pod.reason = sEvicted
    /\ pod.message = msgCloseFirst
    /\ evictionReason = sEvicted

(***************************************************************************)
(* deleteArtifacts, checked under SpecGC.                                  *)
(***************************************************************************)
Returned == gc.result # "running"

\* C32: deleteArtifacts eventually returns, for every number of listed
\* tasks, more tasks than workers included, and every worker count >= 1.
C32_DeleteArtifactsReturns == <>Returned

\* the part of C32 for task lists no longer than the number of workers
C32_ReturnsWhenTasksFit == (gc.items <= gc.taskWorkers) => <>Returned

\* every worker holds a task and waits with its response, while the
\* dispatching loop waits with the next task
C32_Deadlock ==
    /\ gc.pc = "send"
    /\ gc.items > gc.taskWorkers
    /\ \A k \in DOMAIN gc.workers : gc.workers[k].pc \in {"sendErr", "sendComplete"}

Tasks == DOMAIN gc.patches

EachTaskOnce ==
    /\ \A t \in Tasks : gc.received[t] = 1 /\ gc.patches[t] = 1
    /\ \A k \in DOMAIN gc.workers : gc.workers[k].pc = "exit"

ReturnedNil == gc.pc = "returned" /\ gc.result = "nil"
ReturnedWorkerErr == gc.pc = "returned" /\ gc.result = "err" /\ gc.errFrom = "worker"

\* C33: when deleteArtifacts returns nil, each listed task was received by
\* exactly one worker and got exactly one status Patch, and every worker
\* has sent its done signal; when it returns the error a worker reported,
\* the task of that response was not patched.
C33_EachTaskOnce ==
    /\ ReturnedNil => EachTaskOnce
    /\ ReturnedWorkerErr => gc.patches[gc.errTask] = 0

\* the same in a build whose loop of line 77 has one variable per iteration
C33_EachTaskOnce_PerIteration ==
    ~gc.sharedLoopVar =>
        /\ ReturnedNil => EachTaskOnce
        /\ ReturnedWorkerErr => gc.patches[gc.errTask] = 0

\* two tasks and two workers with a shared loop variable: the last task is
\* patched twice and the first never
C33_LastTaskPatchedTwice ==
    /\ ReturnedNil
    /\ gc.sharedLoopVar
    /\ gc.items = 2
    /\ gc.patches = <<0, 2>>

\* two tasks, two workers, one variable per iteration: both patched once
C33_BothPatchedOnce ==
    /\ ReturnedNil
    /\ ~gc.sharedLoopVar
    /\ gc.items = 2
    /\ gc.patches = <<1, 1>>
    /\ gc.received = <<1, 1>>

====
